---- MODULE Spec2Model ----
(***************************************************************************)
(* Resume upload + extractor service (main.py, parser_utils.py).           *)
(*                                                                         *)
(* A Python str is modelled as a sequence of one-character strings, so     *)
(* that lower(), strip(), split(), splitlines(), the `in` substring test   *)
(* and the \b-delimited regular expressions are computed character by      *)
(* character.  A Python dict or list is a record with a "type" field.      *)
(***************************************************************************)
EXTENDS Naturals, Sequences, FiniteSets, TLC

(***************************************************************************)
(* Python str primitives                                                   *)
(***************************************************************************)

\* Characters in ascending code-point order (the order sorted() uses).
CodePoints ==
    << "\t", "\n", "\r", " ", "'", "+", ",", "-", ".", "0", "1", "2", "3", "4",
       "5", "6", "7", "8", "9", ":",
       "A", "B", "C", "D", "E", "F", "G", "H", "I", "J", "K", "L", "M", "N",
       "O", "P", "Q", "R", "S", "T", "U", "V", "W", "X", "Y", "Z", "[", "]", "_",
       "a", "b", "c", "d", "e", "f", "g", "h", "i", "j", "k", "l", "m", "n",
       "o", "p", "q", "r", "s", "t", "u", "v", "w", "x", "y", "z", "{", "}" >>

UpperCase == <<"A", "B", "C", "D", "E", "F", "G", "H", "I", "J", "K", "L", "M", "N", "O", "P", "Q", "R", "S", "T", "U", "V", "W", "X", "Y", "Z">>

LowerCase == <<"a", "b", "c", "d", "e", "f", "g", "h", "i", "j", "k", "l", "m", "n", "o", "p", "q", "r", "s", "t", "u", "v", "w", "x", "y", "z">>

Digits == {"0", "1", "2", "3", "4", "5", "6", "7", "8", "9"}

Range(f) == {f[i] : i \in DOMAIN f}

Min(S) == CHOOSE m \in S : \A n \in S : m <= n

Max(S) == CHOOSE m \in S : \A n \in S : m >= n

IndexOf(c, seq) == Min({i \in 1..Len(seq) : seq[i] = c})

Ord(c) == IndexOf(c, CodePoints)

\* str.isspace for the characters strip() and split() remove
IsSpace(c) == c \in {" ", "\t", "\n", "\r"}

\* the regular expression class \w
IsWordChar(c) == c \in Range(UpperCase) \cup Range(LowerCase) \cup Digits \cup {"_"}

LowerChar(c) == IF c \in Range(UpperCase) THEN LowerCase[IndexOf(c, UpperCase)] ELSE c

UpperChar(c) == IF c \in Range(LowerCase) THEN UpperCase[IndexOf(c, LowerCase)] ELSE c

Lower(s) == [i \in 1..Len(s) |-> LowerChar(s[i])]

Upper(s) == [i \in 1..Len(s) |-> UpperChar(s[i])]

Strip(s) ==
    LET keep == {i \in 1..Len(s) : ~IsSpace(s[i])}
    IN  IF keep = {} THEN <<>> ELSE SubSeq(s, Min(keep), Max(keep))

StartsAt(sub, s, i) ==
    /\ i + Len(sub) - 1 <= Len(s)
    /\ \A k \in 1..Len(sub) : s[i + k - 1] = sub[k]

StartsWith(s, prefix) == StartsAt(prefix, s, 1)

EndsWith(s, suffix) == Len(suffix) <= Len(s) /\ StartsAt(suffix, s, Len(s) - Len(suffix) + 1)

\* sub in s
Contains(sub, s) == \E i \in 1..(Len(s) + 1) : StartsAt(sub, s, i)

\* s[:n]
Prefix(s, n) == SubSeq(s, 1, IF n < Len(s) THEN n ELSE Len(s))

\* s[-n:]
Suffix(s, n) == IF Len(s) <= n THEN s ELSE SubSeq(s, Len(s) - n + 1, Len(s))

\* the members of a finite set of numbers, ascending
Ascending(S) ==
    [k \in 1..Cardinality(S) |-> CHOOSE e \in S : Cardinality({x \in S : x < e}) = k - 1]

\* str.splitlines(): a line ends at "\n", "\r" or "\r\n"; what follows the
\* last line end is a line when it is not empty
SplitLines(s) ==
    LET ends == Ascending({i \in 1..Len(s) :
                    \/ s[i] = "\n"
                    \/ s[i] = "\r" /\ ~(i < Len(s) /\ s[i + 1] = "\n")})
        n == Len(ends)
        From(k) == IF k = 1 THEN 1 ELSE ends[k - 1] + 1
        To(k) == IF s[ends[k]] = "\n" /\ ends[k] > 1 /\ s[ends[k] - 1] = "\r"
                 THEN ends[k] - 2 ELSE ends[k] - 1
        closed == [k \in 1..n |-> SubSeq(s, From(k), To(k))]
    IN  IF n = 0 THEN (IF s = <<>> THEN <<>> ELSE <<s>>)
        ELSE IF ends[n] < Len(s) THEN Append(closed, SubSeq(s, ends[n] + 1, Len(s)))
        ELSE closed

\* str.split() with no separator: the maximal runs without whitespace
Split(s) ==
    LET starts == Ascending({i \in 1..Len(s) :
                      ~IsSpace(s[i]) /\ (i = 1 \/ IsSpace(s[i - 1]))})
        End(i) == Min({j \in i..Len(s) : j = Len(s) \/ IsSpace(s[j + 1])})
    IN  [k \in 1..Len(starts) |-> SubSeq(s, starts[k], End(starts[k]))]

RECURSIVE Join(_, _)
\* sep.join(parts)
Join(sep, parts) ==
    IF parts = <<>> THEN <<>>
    ELSE IF Len(parts) = 1 THEN parts[1]
    ELSE parts[1] \o sep \o Join(sep, Tail(parts))

RECURSIVE Concat(_)
Concat(parts) == IF parts = <<>> THEN <<>> ELSE parts[1] \o Concat(Tail(parts))

\* the regular expression assertion \b between s[p] and s[p + 1]
WordBoundary(s, p) ==
    LET W(k) == k \in 1..Len(s) /\ IsWordChar(s[k])
    IN  W(p) # W(p + 1)

\* re.search(r"\b" + re.escape(lit) + r"\b", s)
ReSearchWord(lit, s) ==
    \E i \in 1..Len(s) :
        /\ StartsAt(lit, s, i)
        /\ WordBoundary(s, i - 1)
        /\ WordBoundary(s, i + Len(lit) - 1)

\* s1 < s2 in Python's str order
StrLess(s1, s2) ==
    LET n == IF Len(s1) < Len(s2) THEN Len(s1) ELSE Len(s2)
        differ == {i \in 1..n : s1[i] # s2[i]}
    IN  IF differ = {} THEN Len(s1) < Len(s2)
        ELSE Ord(s1[Min(differ)]) < Ord(s2[Min(differ)])

\* sorted(list(S)) for a set S of str
SortedList(S) ==
    [k \in 1..Cardinality(S) |->
        CHOOSE x \in S : Cardinality({y \in S : StrLess(y, x)}) = k - 1]

\* all sequences over S of length at most n
SeqUpTo(S, n) == UNION {[1..k -> S] : k \in 0..n}


(***************************************************************************)
(* Python values                                                           *)
(***************************************************************************)

\* an optional str: None, or a str
None == [isnone |-> TRUE, str |-> <<>>]

Str(s) == [isnone |-> FALSE, str |-> s]

\* bool(v) for an optional str
Truthy(v) == ~v.isnone /\ v.str # <<>>

\* str(v) / f"{v}" for an optional str
Format(v) == IF v.isnone THEN <<"N", "o", "n", "e">> ELSE v.str

\* repr(v) for an optional str without quotes or escapes in it
Repr(v) == IF v.isnone THEN <<"N", "o", "n", "e">> ELSE <<"'">> \o v.str \o <<"'">>

\* str(list) of optional strs
ReprList(items) ==
    <<"[">> \o Join(<<",", " ">>, [i \in 1..Len(items) |-> Repr(items[i])]) \o <<"]">>

\* a dict that may hold the keys "answer" and "error", as the QA pipeline
\* and call_local_qa return it
Dict(has_answer, answer, has_error, error) ==
    [type |-> "dict", has_answer |-> has_answer, answer |-> answer,
     has_error |-> has_error, error |-> error, items |-> <<>>]

AnswerDict(a) == Dict(TRUE, a, FALSE, <<>>)

ErrorDict(m) == Dict(FALSE, <<>>, TRUE, m)

\* a list of such dicts
List(items) ==
    [type |-> "list", has_answer |-> FALSE, answer |-> <<>>,
     has_error |-> FALSE, error |-> <<>>, items |-> items]

\* str(d) for such a dict
ReprDict(d) ==
    <<"{">>
    \o (IF d.has_answer THEN <<"'", "a", "n", "s", "w", "e", "r", "'", ":", " ">> \o Repr(Str(d.answer)) ELSE <<>>)
    \o (IF d.has_answer /\ d.has_error THEN <<",", " ">> ELSE <<>>)
    \o (IF d.has_error THEN <<"'", "e", "r", "r", "o", "r", "'", ":", " ">> \o Repr(Str(d.error)) ELSE <<>>)
    \o <<"}">>

\* str(v) for a dict or a list of dicts
ReprValue(v) ==
    IF v.type = "dict" THEN ReprDict(v)
    ELSE <<"[">> \o Join(<<",", " ">>, [i \in 1..Len(v.items) |-> ReprDict(v.items[i])]) \o <<"]">>

\* an entity dict: each key may be absent, and its value may be None
Entity(has_word, word, has_entity, entity, has_entity_group, entity_group) ==
    [has_word |-> has_word, word |-> word,
     has_entity |-> has_entity, entity |-> entity,
     has_entity_group |-> has_entity_group, entity_group |-> entity_group]

\* e.get(key): None when the key is absent
GetWord(e) == IF e.has_word THEN e.word ELSE None

GetEntity(e) == IF e.has_entity THEN e.entity ELSE None

GetEntityGroup(e) == IF e.has_entity_group THEN e.entity_group ELSE None


(***************************************************************************)
(* parser_utils.py: build_structured_fields                                *)
(***************************************************************************)

COMMON_SKILLS ==
    << <<"p", "y", "t", "h", "o", "n">>,
       <<"j", "a", "v", "a">>,
       <<"c", "+", "+">>,
       <<"c">>,
       <<"j", "a", "v", "a", "s", "c", "r", "i", "p", "t">>,
       <<"s", "q", "l">>,
       <<"n", "o", "s", "q", "l">>,
       <<"m", "o", "n", "g", "o", "d", "b">>,
       <<"p", "o", "s", "t", "g", "r", "e", "s", "q", "l">>,
       <<"m", "y", "s", "q", "l">>,
       <<"p", "a", "n", "d", "a", "s">>,
       <<"n", "u", "m", "p", "y">>,
       <<"s", "c", "i", "k", "i", "t", "-", "l", "e", "a", "r", "n">>,
       <<"t", "e", "n", "s", "o", "r", "f", "l", "o", "w">>,
       <<"k", "e", "r", "a", "s">>,
       <<"p", "y", "t", "o", "r", "c", "h">>,
       <<"f", "a", "s", "t", "a", "p", "i">>,
       <<"f", "l", "a", "s", "k">>,
       <<"d", "o", "c", "k", "e", "r">>,
       <<"k", "u", "b", "e", "r", "n", "e", "t", "e", "s">>,
       <<"a", "w", "s">>,
       <<"g", "c", "p">>,
       <<"a", "z", "u", "r", "e">>,
       <<"h", "t", "m", "l">>,
       <<"c", "s", "s">>,
       <<"r", "e", "a", "c", "t">>,
       <<"n", "o", "d", "e">>,
       <<"s", "p", "a", "r", "k">>,
       <<"h", "a", "d", "o", "o", "p">> >>

DEGREE_KEYWORDS ==
    << <<"b", "a", "c", "h", "e", "l", "o", "r">>,
       <<"b", "s", "c">>,
       <<"b", ".", "t", "e", "c", "h">>,
       <<"b", "t", "e", "c", "h">>,
       <<"b", "s">>,
       <<"m", "a", "s", "t", "e", "r">>,
       <<"m", "s", "c">>,
       <<"m", ".", "t", "e", "c", "h">>,
       <<"m", "t", "e", "c", "h">>,
       <<"m", "s">>,
       <<"p", "h", "d">>,
       <<"d", "i", "p", "l", "o", "m", "a">> >>

\* the alternation of the regular expression on line 157
INSTITUTION_WORDS ==
    << <<"u", "n", "i", "v", "e", "r", "s", "i", "t", "y">>,
       <<"c", "o", "l", "l", "e", "g", "e">>,
       <<"i", "n", "s", "t", "i", "t", "u", "t", "e">>,
       <<"s", "c", "h", "o", "o", "l">> >>

\* the role keywords of line 176
ROLE_KEYWORDS ==
    << <<"i", "n", "t", "e", "r", "n">>,
       <<"e", "n", "g", "i", "n", "e", "e", "r">>,
       <<"m", "a", "n", "a", "g", "e", "r">>,
       <<"a", "s", "s", "o", "c", "i", "a", "t", "e">>,
       <<"a", "n", "a", "l", "y", "s", "t">>,
       <<"d", "e", "v", "e", "l", "o", "p", "e", "r">> >>

hobby_keywords ==
    << <<"r", "e", "a", "d", "i", "n", "g">>,
       <<"t", "r", "a", "v", "e", "l", "l", "i", "n", "g">>,
       <<"t", "r", "a", "v", "e", "l">>,
       <<"m", "u", "s", "i", "c">>,
       <<"p", "h", "o", "t", "o", "g", "r", "a", "p", "h", "y">>,
       <<"g", "a", "m", "i", "n", "g">>,
       <<"s", "p", "o", "r", "t", "s">>,
       <<"c", "r", "i", "c", "k", "e", "t">>,
       <<"f", "o", "o", "t", "b", "a", "l", "l">> >>

\* ent.get("entity_group") and ent.get("entity_group").upper().startswith(tag)
GroupStartsWith(ent, tag) ==
    /\ Truthy(GetEntityGroup(ent))
    /\ StartsWith(Upper(GetEntityGroup(ent).str), tag)

\* lines 141-145: the word of the first PER entity, None without one
DetectName(ner_entities) ==
    LET per == {i \in 1..Len(ner_entities) : GroupStartsWith(ner_entities[i], <<"P", "E", "R">>)}
    IN  IF per = {} THEN None ELSE GetWord(ner_entities[Min(per)])

\* lines 148-151
found_skills(lower_text) ==
    {COMMON_SKILLS[i] : i \in {j \in 1..Len(COMMON_SKILLS) :
                                 ReSearchWord(COMMON_SKILLS[j], lower_text)}}

\* lines 155-159
edu_lines(text) ==
    LET Qualifies(line) ==
            /\ \/ \E k \in 1..Len(DEGREE_KEYWORDS) : Contains(DEGREE_KEYWORDS[k], Lower(line))
               \/ \E k \in 1..Len(INSTITUTION_WORDS) :
                      ReSearchWord(INSTITUTION_WORDS[k], Lower(line))
            /\ Len(Strip(line)) > 5
        kept == SelectSeq(SplitLines(text), Qualifies)
    IN  [i \in 1..Len(kept) |-> Strip(kept[i])]

\* the entities the comprehensions of lines 165 and 179 keep
OrgEntities(ner_entities) ==
    LET IsOrg(e) == GroupStartsWith(e, <<"O", "R", "G">>)
    IN  SelectSeq(ner_entities, IsOrg)

\* e["word"] raises KeyError for a kept entity without the key
OrgsRaises(ner_entities) ==
    LET kept == OrgEntities(ner_entities)
    IN  \E i \in 1..Len(kept) : ~kept[i].has_word

\* [e["word"] for e in ... if ...]
orgs(ner_entities) ==
    LET kept == OrgEntities(ner_entities)
    IN  [i \in 1..Len(kept) |-> kept[i].word]

\* lines 154-167: the education dict
Education(text, ner_entities) ==
    LET lines == edu_lines(text)
        words == orgs(ner_entities)
    IN  IF lines # <<>>
        THEN [has_entries |-> TRUE, entries |-> [i \in 1..Len(lines) |-> Str(lines[i])]]
        ELSE IF words # <<>>
        THEN [has_entries |-> TRUE, entries |-> Prefix(words, 3)]
        ELSE [has_entries |-> FALSE, entries |-> <<>>]

\* year_pattern.search(l), year_pattern = (19|20)\d{2}
YearSearch(l) ==
    \E i \in 1..Len(l) :
        /\ i + 3 <= Len(l)
        /\ \/ l[i] = "1" /\ l[i + 1] = "9"
           \/ l[i] = "2" /\ l[i + 1] = "0"
        /\ l[i + 2] \in Digits
        /\ l[i + 3] \in Digits

\* lines 170-181
Experiences(text, ner_entities) ==
    LET lines == SplitLines(text)
        stripped == [i \in 1..Len(lines) |-> Strip(lines[i])]
        Qualifies(l) ==
            /\ Len(l) # 0
            /\ YearSearch(l)
            /\ \E k \in 1..Len(ROLE_KEYWORDS) : Contains(ROLE_KEYWORDS[k], Lower(l))
        first5 == Prefix(orgs(ner_entities), 5)
    IN  SelectSeq(stripped, Qualifies)
        \o [i \in 1..Len(first5) |-> <<"W", "o", "r", "k", "e", "d", " ", "a", "t", " ">> \o Format(first5[i])]

\* lines 184-189
Certs(text) ==
    LET Is(line) ==
            \/ Contains(<<"c", "e", "r", "t", "i", "f">>, Lower(line))
            \/ Contains(<<"c", "o", "u", "r", "s", "e">>, Lower(line))
            \/ Contains(<<"c", "e", "r", "t", "i", "f", "i", "c", "a", "t", "e">>, Lower(line))
        kept == SelectSeq(SplitLines(text), Is)
    IN  [i \in 1..Len(kept) |-> Strip(kept[i])]

\* lines 185-191
Projects(text) ==
    LET Is(line) ==
            \/ Contains(<<"p", "r", "o", "j", "e", "c", "t">>, Lower(line))
            \/ Contains(<<"g", "i", "t", "h", "u", "b", ".", "c", "o", "m">>, Lower(line))
        kept == SelectSeq(SplitLines(text), Is)
    IN  [i \in 1..Len(kept) |-> Strip(kept[i])]

\* lines 194-198
Hobbies(lower_text) ==
    LET Found(h) == ReSearchWord(h, lower_text)
    IN  SelectSeq(hobby_keywords, Found)

\* lines 201-205
Intro(text) ==
    LET lines == SplitLines(text)
        long == {i \in 1..Len(lines) : Len(Strip(lines[i])) > 30}
    IN  IF long = {} THEN <<>> ELSE Strip(lines[Min(long)])

\* the dict build_structured_fields returns
Structured(name, education, experience, skills, hobbies, certifications, projects, introduction) ==
    [name |-> name, education |-> education, experience |-> experience,
     skills |-> skills, hobbies |-> hobbies, certifications |-> certifications,
     projects |-> projects, introduction |-> introduction]

EmptyStructured ==
    Structured(<<>>, [has_entries |-> FALSE, entries |-> <<>>],
               [has_summary_lines |-> FALSE, summary_lines |-> <<>>],
               <<>>, <<>>, <<>>, <<>>, <<>>)

\* build_structured_fields(text, ner_entities): the dict it returns, or the
\* exception it raises (e["word"] on line 165, reached without education
\* lines, or on line 179)
build_structured_fields(text, ner_entities) ==
    IF OrgsRaises(ner_entities)
    THEN [raised |-> TRUE, exception |-> "KeyError",
          line |-> IF edu_lines(text) = <<>> THEN 165 ELSE 179,
          value |-> EmptyStructured]
    ELSE [raised |-> FALSE, exception |-> "", line |-> 0,
          value |->
            LET name == DetectName(ner_entities)
                experiences == Experiences(text, ner_entities)
            IN
            Structured(
              IF Truthy(name) THEN name.str ELSE <<>>,
              Education(text, ner_entities),
              IF experiences # <<>>
                THEN [has_summary_lines |-> TRUE, summary_lines |-> experiences]
                ELSE [has_summary_lines |-> FALSE, summary_lines |-> <<>>],
              SortedList(found_skills(Lower(text))),
              Hobbies(Lower(text)),
              Certs(text),
              Projects(text),
              Intro(text))]


(***************************************************************************)
(* State                                                                   *)
(***************************************************************************)

VARIABLES
    TRANSFORMERS_AVAILABLE, \* parser_utils.py: whether the transformers import succeeded
    models_loaded,          \* parser_utils.py: _models_loaded
    ner_pipeline,           \* parser_utils.py: "None" or "pipeline"
    qa_pipeline,            \* parser_utils.py: "None" or "pipeline"
    phase,                  \* "import" (parser_utils line 48 pending), "startup"
                            \* (main.py line 24 pending), "serving"
    load_attempts,          \* how often the pipeline constructors of lines 37-39 were entered
    late_changes,           \* calls after the first that changed one of the three globals
    candidates_col,         \* the MongoDB collection: the inserted documents, in order
    uploads,                \* upload_resume requests accepted so far
    upload,                 \* the locals of the upload_resume request in progress
    ask,                    \* the outcome of the ask_candidate request being answered
    fields_call,            \* a direct call of build_structured_fields
    qa_call                 \* a direct call of call_local_qa

globals == <<TRANSFORMERS_AVAILABLE, models_loaded, ner_pipeline, qa_pipeline>>

loading == <<phase, load_attempts, late_changes>>

service == <<candidates_col, uploads, upload, ask>>

vars == <<globals, loading, service, fields_call, qa_call>>

(***************************************************************************)
(* parser_utils.py: model loading, NER, QA                                 *)
(***************************************************************************)

\* try_load_models(): the globals it leaves and whether it entered the
\* pipeline constructors.  how: what the constructors do, "ok", "ner_fails"
\* or "qa_fails"
try_load_models(how) ==
    IF models_loaded
    THEN [models_loaded |-> models_loaded, ner_pipeline |-> ner_pipeline,
          qa_pipeline |-> qa_pipeline, attempted |-> FALSE]
    ELSE IF ~TRANSFORMERS_AVAILABLE
    THEN [models_loaded |-> FALSE, ner_pipeline |-> ner_pipeline,
          qa_pipeline |-> qa_pipeline, attempted |-> FALSE]
    ELSE IF how = "ok"
    THEN [models_loaded |-> TRUE, ner_pipeline |-> "pipeline",
          qa_pipeline |-> "pipeline", attempted |-> TRUE]
    ELSE [models_loaded |-> FALSE, ner_pipeline |-> "None",
          qa_pipeline |-> "None", attempted |-> TRUE]

\* lines 76-80: one raw entity of the NER pipeline, normalised
Normalized(e) ==
    Entity(TRUE, IF e.has_word THEN e.word ELSE GetEntity(e),
           FALSE, None,
           TRUE, IF Truthy(GetEntityGroup(e)) THEN GetEntityGroup(e) ELSE GetEntity(e))

max_chunk == 45000

\* call_local_ner(text).  ner: what the pipeline does with text[:max_chunk],
\* [raises, ents]
call_local_ner(text, ner) ==
    IF models_loaded /\ ner_pipeline # "None"
    THEN IF ner.raises THEN <<>>
         ELSE [i \in 1..Len(ner.ents) |-> Normalized(ner.ents[i])]
    ELSE <<>>

max_context == 20000

NO_CLEAR_ANSWER == <<"N", "o", " ", "c", "l", "e", "a", "r", " ", "a", "n", "s", "w", "e", "r", " ", "f", "o", "u", "n", "d", " ", "i", "n", " ", "s", "t", "o", "r", "e", "d", " ", "d", "a", "t", "a", ".">>

\* Heuristic, were every word of the question a keyword instead of the
\* first three
HeuristicAllWords(question, context) ==
    LET words == Split(Lower(question))
        Keep(line) ==
            /\ ~(Len(Strip(line)) < 3)
            /\ \E w \in 1..Len(words) : Contains(words[w], Lower(line))
        kept == SelectSeq(SplitLines(context), Keep)
    IN  IF kept # <<>> THEN AnswerDict(Strip(kept[1]))
        ELSE AnswerDict(NO_CLEAR_ANSWER)

\* lines 102-111: the keyword heuristic
Heuristic(question, context) ==
    LET q == Lower(question)
        words == Prefix(Split(q), 3)
        Keep(line) ==
            /\ ~(Len(Strip(line)) < 3)
            /\ \E w \in 1..Len(words) : Contains(words[w], Lower(line))
        kept == SelectSeq(SplitLines(context), Keep)
        candidates == [i \in 1..Len(kept) |-> Strip(kept[i])]
    IN  IF candidates # <<>> THEN AnswerDict(candidates[1])
        ELSE AnswerDict(NO_CLEAR_ANSWER)

\* what a call of call_local_qa did: the value returned (ret), the context
\* handed to the pipeline (ctx), how often the pipeline was invoked
\* (qa_calls), the message of the exception caught on line 99 (caught, None
\* without one) and whether the keyword heuristic ran (heuristic_ran)
QaResult(ret, ctx, qa_calls, caught, heuristic_ran) ==
    [ret |-> ret, ctx |-> ctx, qa_calls |-> qa_calls, caught |-> caught,
     heuristic_ran |-> heuristic_ran]

\* call_local_qa, were a failed invocation to fall through to the heuristic
call_local_qa_falling_back(question, context, model) ==
    IF models_loaded /\ qa_pipeline # "None" /\ ~model.raises
    THEN QaResult(model.value, context, 1, None, FALSE)
    ELSE IF models_loaded /\ qa_pipeline # "None"
    THEN QaResult(Heuristic(question, context), context, 1, Str(model.message), TRUE)
    ELSE QaResult(Heuristic(question, context), <<>>, 0, None, TRUE)

\* call_local_qa(question, context).  model: what the QA pipeline does when
\* invoked, [raises, message, value]
call_local_qa(question, context, model) ==
    IF models_loaded /\ qa_pipeline # "None"
    THEN LET ctx == IF Len(context) <= max_context THEN context
                    ELSE Suffix(context, max_context)
         IN  IF model.raises
             THEN QaResult(ErrorDict(model.message), ctx, 1, Str(model.message), FALSE)
             ELSE QaResult(model.value, ctx, 1, None, FALSE)
    ELSE QaResult(Heuristic(question, context), <<>>, 0, None, TRUE)


(***************************************************************************)
(* main.py: ask_candidate                                                  *)
(***************************************************************************)

\* lines 173-187: the context string of a stored document
Context(d) ==
    LET f == d.fields
        Lines(items) == Join(<<"\n">>, items) \o <<"\n">>
        Strs(items) == [i \in 1..Len(items) |-> Str(items[i])]
        parts ==
            (IF f.introduction # <<>>
               THEN << <<"I", "N", "T", "R", "O", "D", "U", "C", "T", "I", "O", "N", ":", "\n">> \o f.introduction \o <<"\n">> >> ELSE <<>>)
            \o (IF f.education.has_entries
               THEN << <<"E", "D", "U", "C", "A", "T", "I", "O", "N", ":", "\n">> \o <<"e", "n", "t", "r", "i", "e", "s", ":", " ">>
                       \o ReprList(f.education.entries) \o <<"\n">> >> ELSE <<>>)
            \o (IF f.experience.has_summary_lines
               THEN << <<"E", "X", "P", "E", "R", "I", "E", "N", "C", "E", ":", "\n">> \o <<"s", "u", "m", "m", "a", "r", "y", "_", "l", "i", "n", "e", "s", ":", " ">>
                       \o ReprList(Strs(f.experience.summary_lines)) \o <<"\n">> >> ELSE <<>>)
            \o (IF f.skills # <<>>
               THEN << <<"S", "K", "I", "L", "L", "S", ":", "\n">> \o Lines(f.skills) >> ELSE <<>>)
            \o (IF f.certifications # <<>>
               THEN << <<"C", "E", "R", "T", "I", "F", "I", "C", "A", "T", "I", "O", "N", "S", ":", "\n">> \o Lines(f.certifications) >> ELSE <<>>)
            \o (IF f.projects # <<>>
               THEN << <<"P", "R", "O", "J", "E", "C", "T", "S", ":", "\n">> \o Lines(f.projects) >> ELSE <<>>)
            \o (IF f.hobbies # <<>>
               THEN << <<"H", "O", "B", "B", "I", "E", "S", ":", "\n">> \o Lines(f.hobbies) >> ELSE <<>>)
    IN  Join(<<"\n">>, parts)

\* Normalize, were the "error" text returned as the answer instead of raised
NormalizeAbsorbingError(hf_resp) ==
    IF hf_resp.type = "dict" /\ hf_resp.has_answer /\ hf_resp.answer # <<>>
    THEN [raised |-> FALSE, text |-> hf_resp.answer]
    ELSE IF hf_resp.type = "list" /\ Len(hf_resp.items) > 0
    THEN IF hf_resp.items[1].has_answer /\ hf_resp.items[1].answer # <<>>
         THEN [raised |-> FALSE, text |-> hf_resp.items[1].answer]
         ELSE [raised |-> FALSE, text |-> ReprDict(hf_resp.items[1])]
    ELSE IF hf_resp.type = "dict" /\ hf_resp.has_error /\ hf_resp.error # <<>>
    THEN [raised |-> FALSE, text |-> hf_resp.error]
    ELSE [raised |-> FALSE, text |-> ReprValue(hf_resp)]

\* lines 191-203: the answer taken from what call_local_qa returned, or the
\* exception raised with the "error" text
Normalize(hf_resp) ==
    IF hf_resp.type = "dict" /\ hf_resp.has_answer /\ hf_resp.answer # <<>>
    THEN [raised |-> FALSE, text |-> hf_resp.answer]
    ELSE IF hf_resp.type = "list" /\ Len(hf_resp.items) > 0
    THEN IF hf_resp.items[1].has_answer /\ hf_resp.items[1].answer # <<>>
         THEN [raised |-> FALSE, text |-> hf_resp.items[1].answer]
         ELSE [raised |-> FALSE, text |-> ReprDict(hf_resp.items[1])]
    ELSE IF hf_resp.type = "dict" /\ hf_resp.has_error /\ hf_resp.error # <<>>
    THEN [raised |-> TRUE, text |-> hf_resp.error]
    ELSE [raised |-> FALSE, text |-> ReprValue(hf_resp)]

\* what ask_candidate leaves: the HTTP status, the error detail or the
\* answer, and what call_local_qa did
AskOutcome(status, detail, answer, called, qa) ==
    [status |-> status, detail |-> detail, answer |-> answer, called |-> called,
     hf_resp |-> qa.ret, qa_calls |-> qa.qa_calls, caught |-> qa.caught,
     heuristic_ran |-> qa.heuristic_ran]

NoQa == QaResult(Dict(FALSE, <<>>, FALSE, <<>>), <<>>, 0, None, FALSE)

\* candidates_col.find_one({"candidate_id": candidate_id}): the indices found
Found(candidate_id) ==
    {i \in 1..Len(candidates_col) : candidates_col[i].candidate_id = Str(candidate_id)}

\* ask_candidate(candidate_id, question).  question: the body,
\* [has_question, question]; model: what the QA pipeline does when invoked
ask_candidate(candidate_id, question, model) ==
    IF ~(question.has_question /\ Truthy(question.question))
    THEN AskOutcome(400, <<"M", "i", "s", "s", "i", "n", "g", " ", "'", "q", "u", "e", "s", "t", "i", "o", "n", "'", " ", "i", "n", " ", "b", "o", "d", "y">>, <<>>, FALSE, NoQa)
    ELSE IF Found(candidate_id) = {}
    THEN AskOutcome(404, <<"C", "a", "n", "d", "i", "d", "a", "t", "e", " ", "n", "o", "t", " ", "f", "o", "u", "n", "d">>, <<>>, FALSE, NoQa)
    ELSE LET d == candidates_col[Min(Found(candidate_id))]
             qa == call_local_qa(question.question.str, Context(d), model)
             n == Normalize(qa.ret)
         IN  IF n.raised
             THEN AskOutcome(500, <<"Q", "A", " ", "f", "a", "i", "l", "e", "d", ":", " ">> \o n.text, <<>>, TRUE, qa)
             ELSE AskOutcome(200, <<>>, n.text, TRUE, qa)


(***************************************************************************)
(* main.py: upload_resume                                                  *)
(***************************************************************************)

\* str(uuid.uuid4()): the n-th identifier generated
Uuid(n) == <<"u", "u", "i", "d">> \o <<CodePoints[Ord("0") + n]>>

\* one row of the data a metadata insert returns
Row(has_id, id, has_metadata_id, metadata_id) ==
    [has_id |-> has_id, id |-> id,
     has_metadata_id |-> has_metadata_id, metadata_id |-> metadata_id]

\* what supabase.table(...).insert(metadata).execute() does: it raises, or
\* returns a dict (with its "error" and "data"), a list of rows, or an object
\* without get().  data is "list", "dict" or "none"; a dict's data is rows[1]
InsertRes(raises, type, error, data, rows) ==
    [raises |-> raises, type |-> type, error |-> error, data |-> data, rows |-> rows]

\* lines 101-119: the metadata_id left by the insert; fresh: the uuid4 of
\* lines 116 and 119
MetadataId(insert_res, fresh) ==
    IF insert_res.raises THEN Str(fresh)
    ELSE IF insert_res.type = "dict" /\ Truthy(insert_res.error) THEN Str(fresh)
    ELSE LET supa_data ==
                 IF insert_res.type = "dict" THEN insert_res.data
                 ELSE IF insert_res.type = "list" THEN "list"
                 ELSE "object"
             rows == insert_res.rows
         IN  IF supa_data = "list" /\ Len(rows) > 0
             THEN IF rows[1].has_id /\ Truthy(rows[1].id) THEN rows[1].id
                  ELSE IF rows[1].has_metadata_id THEN rows[1].metadata_id
                  ELSE None
             ELSE IF supa_data = "dict" /\ rows[1].has_id /\ Truthy(rows[1].id)
             THEN rows[1].id
             ELSE Str(fresh)

\* the locals of upload_resume and what the request has done so far
Upload(pc, filename, uid, extracted, text, structured_data, blob_uploaded, metadata_inserts, metadata_id, candidate_inserts, status, detail) ==
    [pc |-> pc, filename |-> filename, uid |-> uid, extracted |-> extracted,
     text |-> text, structured_data |-> structured_data,
     blob_uploaded |-> blob_uploaded, metadata_inserts |-> metadata_inserts,
     metadata_id |-> metadata_id, candidate_inserts |-> candidate_inserts,
     status |-> status, detail |-> detail]

NoUpload ==
    Upload("idle", <<>>, <<>>, FALSE, <<>>, EmptyStructured, FALSE, 0, None, 0, 0, <<>>)

\* raise HTTPException(status_code, detail)
Abort(u, status_code, detail) ==
    [u EXCEPT !.pc = "done", !.status = status_code, !.detail = detail]

\* lines 55-63: the extension check and the temporary file
Receive(filename) ==
    IF ~(EndsWith(Lower(filename), <<".", "p", "d", "f">>) \/ EndsWith(Lower(filename), <<".", "d", "o", "c", "x">>))
    THEN Abort([NoUpload EXCEPT !.filename = filename], 400, <<"O", "n", "l", "y", " ", ".", "p", "d", "f", " ", "a", "n", "d", " ", ".", "d", "o", "c", "x", " ", "a", "l", "l", "o", "w", "e", "d">>)
    ELSE [NoUpload EXCEPT !.pc = "extract", !.filename = filename,
                          !.uid = Uuid(2 * uploads)]

\* lines 65-72.  extraction: what extract_text_from_pdf/docx does, [raises, text]
Extract(u, extraction) ==
    IF extraction.raises THEN Abort(u, 500, <<"T", "e", "x", "t", " ", "e", "x", "t", "r", "a", "c", "t", "i", "o", "n", " ", "f", "a", "i", "l", "e", "d">>)
    ELSE [u EXCEPT !.pc = "parse", !.extracted = TRUE, !.text = extraction.text]

\* lines 74-82.  ner: what the NER pipeline does when invoked
Parse(u, ner) ==
    LET ner_resp == call_local_ner(Prefix(u.text, max_chunk), ner)
        built == build_structured_fields(u.text, ner_resp)
    IN  IF built.raised THEN Abort(u, 500, <<"I", "n", "t", "e", "r", "n", "a", "l", " ", "S", "e", "r", "v", "e", "r", " ", "E", "r", "r", "o", "r">>)
        ELSE [u EXCEPT !.pc = "blob", !.structured_data = built.value]

\* Blob, were the "error" key of the returned dict not looked at
BlobIgnoringErrorKey(u, res) ==
    IF res = "raises" THEN Abort(u, 500, <<"S", "u", "p", "a", "b", "a", "s", "e", " ", "u", "p", "l", "o", "a", "d", " ", "e", "r", "r", "o", "r">>)
    ELSE [u EXCEPT !.pc = "metadata", !.blob_uploaded = (res = "ok")]

\* lines 84-93.  res: what the storage upload does, "ok", "error" (a dict
\* with an error) or "raises"
Blob(u, res) ==
    IF res = "ok" THEN [u EXCEPT !.pc = "metadata", !.blob_uploaded = TRUE]
    ELSE Abort(u, 500, <<"S", "u", "p", "a", "b", "a", "s", "e", " ", "u", "p", "l", "o", "a", "d", " ", "e", "r", "r", "o", "r">>)

\* lines 95-119
Metadata(u, insert_res) ==
    [u EXCEPT !.pc = "candidate", !.metadata_inserts = @ + 1,
              !.metadata_id = MetadataId(insert_res, Uuid(2 * uploads + 1))]

raw_text_snippet_len == 3000

\* lines 122-129
candidate_doc(u) ==
    [candidate_id |-> u.metadata_id, file_name |-> u.filename,
     storage_path |-> u.uid \o <<"/">> \o u.filename,
     raw_text_snippet |-> Prefix(u.text, raw_text_snippet_len),
     fields |-> u.structured_data]

\* lines 130-135.  inserted: whether insert_one returns
Candidate(u, inserted) ==
    IF inserted THEN [u EXCEPT !.pc = "done", !.candidate_inserts = @ + 1, !.status = 201]
    ELSE Abort(u, 500, <<"M", "o", "n", "g", "o", "D", "B", " ", "i", "n", "s", "e", "r", "t", " ", "f", "a", "i", "l", "e", "d">>)


(***************************************************************************)
(* Bounds and the inputs the environment may supply                        *)
(***************************************************************************)

MaxUploads == 2

MaxFrags == 3

MaxEduFrags == 2

MaxEnts == 4

MaxQuestionWords == 4

MaxContextLines == 2

\* all concatenations of at most n fragments
Texts(fragments, n) == {Concat(parts) : parts \in SeqUpTo(fragments, n)}

\* an accepted name (the check lower-cases it) and a rejected one; a .docx
\* name differs only in the extractor called, whose outcome is an input
Filenames == { <<"C", "V", ".", "P", "D", "F">>, <<"c", "v", ".", "t", "x", "t">> }

ResumeTexts ==
    { <<>>,
      <<"B", "S", "c", " ", "C", "S", ",", " ", "M", "I", "T", " ", "2", "0", "1", "9", "\n", "s", "q", "l", " ", "c", "o", "u", "r", "s", "e", " ", "a", "n", "d", " ", "c", "+", "+">> }

Extractions ==
    {[raises |-> TRUE, text |-> <<>>]} \cup {[raises |-> FALSE, text |-> t] : t \in ResumeTexts}

PerJane == Entity(TRUE, Str(<<"J", "a", "n", "e">>), FALSE, None, TRUE, Str(<<"P", "E", "R">>))

OrgAcme == Entity(TRUE, Str(<<"A", "c", "m", "e">>), FALSE, None, TRUE, Str(<<"O", "R", "G">>))

\* a token-level entity: neither "word" nor "entity_group", only "entity"
RawOrg == Entity(FALSE, None, TRUE, Str(<<"B", "-", "O", "R", "G">>), FALSE, None)

NerOutcomes ==
    { [raises |-> TRUE, ents |-> <<>>],
      [raises |-> FALSE, ents |-> <<PerJane, OrgAcme, RawOrg>>] }

BlobResults == {"ok", "error", "raises"}

NoRow == Row(FALSE, None, FALSE, None)

InsertResults ==
    { InsertRes(TRUE, "dict", None, "none", <<>>),
      InsertRes(FALSE, "dict", Str(<<"d", "e", "n", "i", "e", "d">>), "none", <<>>),
      InsertRes(FALSE, "dict", None, "none", <<>>),
      InsertRes(FALSE, "dict", None, "list", <<>>),
      InsertRes(FALSE, "dict", None, "list", <<Row(TRUE, Str(<<"7">>), FALSE, None)>>),
      InsertRes(FALSE, "dict", None, "list", <<Row(FALSE, None, TRUE, Str(<<"7">>))>>),
      InsertRes(FALSE, "dict", None, "list", <<NoRow>>),
      InsertRes(FALSE, "dict", None, "dict", <<Row(TRUE, Str(<<"7">>), FALSE, None)>>),
      InsertRes(FALSE, "dict", None, "dict", <<NoRow>>),
      InsertRes(FALSE, "list", None, "none", <<Row(TRUE, Str(<<"7">>), FALSE, None)>>),
      InsertRes(FALSE, "object", None, "none", <<>>) }

QuestionBodies ==
    { [has_question |-> FALSE, question |-> None],
      [has_question |-> TRUE, question |-> Str(<<>>)],
      [has_question |-> TRUE, question |-> Str(<<"W", "h", "i", "c", "h", " ", "c", "o", "u", "r", "s", "e">>)],
      [has_question |-> TRUE, question |-> Str(<<"w", "h", "e", "r", "e", " ", "d", "i", "d", " ", "s", "h", "e", " ", "s", "t", "u", "d", "y">>)] }

QaModel(raises, message, value) == [raises |-> raises, message |-> message, value |-> value]

QaOutcomes ==
    { QaModel(TRUE, <<"b", "o", "o", "m">>, List(<<>>)),
      QaModel(TRUE, <<>>, List(<<>>)),
      QaModel(FALSE, <<>>, AnswerDict(<<"M", "I", "T">>)),
      QaModel(FALSE, <<>>, AnswerDict(<<>>)),
      QaModel(FALSE, <<>>, List(<<AnswerDict(<<"M", "I", "T">>), AnswerDict(<<"C", "S">>)>>)),
      QaModel(FALSE, <<>>, List(<<AnswerDict(<<>>)>>)),
      QaModel(FALSE, <<>>, List(<<>>)) }

\* the identifiers a client may ask about
AskIds ==
    {candidates_col[i].candidate_id.str :
        i \in {j \in 1..Len(candidates_col) : ~candidates_col[j].candidate_id.isnone}}
    \cup { <<"n", "o", "b", "o", "d", "y">> }

NoAsk == AskOutcome(0, <<>>, <<>>, FALSE, NoQa)

NoFieldsCall ==
    [pc |-> "none", text |-> <<>>, ner_entities |-> <<>>,
     result |-> [raised |-> FALSE, exception |-> "", line |-> 0, value |-> EmptyStructured]]

NoQaCall ==
    [pc |-> "none", question |-> <<>>, context |-> <<>>, model |-> QaModel(FALSE, <<>>, List(<<>>)),
     result |-> NoQa]

(***************************************************************************)
(* The service: start-up, then requests                                    *)
(***************************************************************************)

Init ==
    /\ TRANSFORMERS_AVAILABLE \in BOOLEAN
    /\ models_loaded = FALSE
    /\ ner_pipeline = "None"
    /\ qa_pipeline = "None"
    /\ phase = "import"
    /\ load_attempts = 0
    /\ late_changes = 0
    /\ candidates_col = <<>>
    /\ uploads = 0
    /\ upload = NoUpload
    /\ ask = NoAsk
    /\ fields_call = NoFieldsCall
    /\ qa_call = NoQaCall

\* a call of try_load_models()
Load(how, first) ==
    LET r == try_load_models(how)
    IN  /\ models_loaded' = r.models_loaded
        /\ ner_pipeline' = r.ner_pipeline
        /\ qa_pipeline' = r.qa_pipeline
        /\ load_attempts' = load_attempts + (IF r.attempted THEN 1 ELSE 0)
        /\ late_changes' = late_changes +
               (IF ~first /\ <<r.models_loaded, r.ner_pipeline, r.qa_pipeline>>
                               # <<models_loaded, ner_pipeline, qa_pipeline>>
                THEN 1 ELSE 0)
        /\ UNCHANGED TRANSFORMERS_AVAILABLE

\* parser_utils.py line 48: the call on import
ImportLoad(how) ==
    /\ phase = "import"
    /\ Load(how, TRUE)
    /\ phase' = "startup"
    /\ UNCHANGED <<service, fields_call, qa_call>>

\* main.py line 24: the call on startup
StartupLoad(how) ==
    /\ phase = "startup"
    /\ Load(how, FALSE)
    /\ phase' = "serving"
    /\ UNCHANGED <<service, fields_call, qa_call>>

UploadStep(u) ==
    /\ upload' = u
    /\ UNCHANGED <<globals, loading, candidates_col, ask, fields_call, qa_call>>

UploadReceive(filename) ==
    /\ phase = "serving"
    /\ upload.pc = "idle"
    /\ ask = NoAsk
    /\ uploads < MaxUploads
    /\ uploads' = uploads + 1
    /\ UploadStep(Receive(filename))

UploadExtract(extraction) ==
    /\ upload.pc = "extract"
    /\ UNCHANGED uploads
    /\ UploadStep(Extract(upload, extraction))

UploadParse(ner) ==
    /\ upload.pc = "parse"
    /\ UNCHANGED uploads
    /\ UploadStep(Parse(upload, ner))

UploadBlob(res) ==
    /\ upload.pc = "blob"
    /\ UNCHANGED uploads
    /\ UploadStep(Blob(upload, res))

UploadMetadata(insert_res) ==
    /\ upload.pc = "metadata"
    /\ UNCHANGED uploads
    /\ UploadStep(Metadata(upload, insert_res))

UploadCandidate(inserted) ==
    /\ upload.pc = "candidate"
    /\ upload' = Candidate(upload, inserted)
    /\ candidates_col' = IF inserted THEN Append(candidates_col, candidate_doc(upload))
                         ELSE candidates_col
    /\ UNCHANGED <<globals, loading, uploads, ask, fields_call, qa_call>>

\* the response is sent and the handler returns
UploadRespond ==
    /\ upload.pc = "done"
    /\ UNCHANGED uploads
    /\ UploadStep(NoUpload)

\* ask_candidate reads only candidates_col and the globals, which an upload
\* changes in the one step UploadCandidate: a question answered during an
\* upload sees what one answered before or after it sees, so questions are
\* taken between uploads
Ask(candidate_id, question, model) ==
    /\ phase = "serving"
    /\ upload.pc = "idle"
    /\ ask = NoAsk
    /\ ask' = ask_candidate(candidate_id, question, model)
    /\ UNCHANGED <<globals, loading, candidates_col, uploads, upload, fields_call, qa_call>>

\* the response is sent and the handler returns
AskRespond ==
    /\ ask # NoAsk
    /\ ask' = NoAsk
    /\ UNCHANGED <<globals, loading, candidates_col, uploads, upload, fields_call, qa_call>>

Loads == {"ok", "ner_fails", "qa_fails"}

Next ==
    \/ \E how \in Loads : ImportLoad(how)
    \/ \E how \in Loads : StartupLoad(how)
    \/ \E filename \in Filenames : UploadReceive(filename)
    \/ \E extraction \in Extractions : UploadExtract(extraction)
    \/ \E ner \in NerOutcomes : UploadParse(ner)
    \/ \E res \in BlobResults : UploadBlob(res)
    \/ \E insert_res \in InsertResults : UploadMetadata(insert_res)
    \/ \E inserted \in BOOLEAN : UploadCandidate(inserted)
    \/ UploadRespond
    \/ \E candidate_id \in AskIds, question \in QuestionBodies, model \in QaOutcomes :
           Ask(candidate_id, question, model)
    \/ AskRespond

Spec == Init /\ [][Next]_vars


(***************************************************************************)
(* build_structured_fields called directly                                 *)
(***************************************************************************)

SkillFragments ==
    { <<"c", "+", "+">>, <<"c">>, <<"C">>, <<" ">>, <<"x">>, <<"s", "q", "l">>, <<"n", "o">>, <<"-">>,
      <<"s", "c", "i", "k", "i", "t", "-", "l", "e", "a", "r", "n">>, <<"P", "y", "t", "h", "o", "n", ",">> }

EduFragments ==
    { <<"B", "S", "c">>, <<" ", "i", "n", " ", "C", "S">>, <<"S", "c", "h", "o", "o", "l">>, <<"s">>, <<"\n">> }

\* entities as a caller may pass them: any key may be absent or None
FieldEntities ==
    { PerJane,
      OrgAcme,
      Entity(TRUE, Str(<<"B", "e", "t", "a">>), FALSE, None, TRUE, Str(<<"o", "r", "g">>)),
      Entity(TRUE, None, FALSE, None, TRUE, Str(<<"O", "R", "G">>)),
      Entity(FALSE, None, FALSE, None, TRUE, Str(<<"O", "R", "G">>)),
      Entity(TRUE, Str(<<"G", "a", "m", "m", "a">>), FALSE, None, TRUE, None) }

FieldsCall(text, ner_entities) ==
    [NoFieldsCall EXCEPT !.pc = "called", !.text = text, !.ner_entities = ner_entities]

\* the rest of the state while a function is called directly
Idle ==
    /\ TRANSFORMERS_AVAILABLE = FALSE
    /\ models_loaded = FALSE
    /\ ner_pipeline = "None"
    /\ qa_pipeline = "None"
    /\ phase = "serving"
    /\ load_attempts = 0
    /\ late_changes = 0
    /\ candidates_col = <<>>
    /\ uploads = 0
    /\ upload = NoUpload
    /\ ask = NoAsk

InitSkills ==
    /\ Idle
    /\ qa_call = NoQaCall
    /\ fields_call \in {FieldsCall(t, e) : t \in Texts(SkillFragments, MaxFrags),
                                           e \in {<<>>, <<PerJane>>}}

InitFields ==
    /\ Idle
    /\ qa_call = NoQaCall
    /\ fields_call \in {FieldsCall(t, e) : t \in Texts(EduFragments, MaxEduFrags),
                                           e \in SeqUpTo(FieldEntities, MaxEnts)}

\* structured = build_structured_fields(text, ner_entities)
BuildFields ==
    /\ fields_call.pc = "called"
    /\ fields_call' = [fields_call EXCEPT
                         !.pc = "returned",
                         !.result = build_structured_fields(fields_call.text,
                                                            fields_call.ner_entities)]
    /\ UNCHANGED <<globals, loading, service, qa_call>>

SpecSkills == InitSkills /\ [][BuildFields]_vars

SpecFields == InitFields /\ [][BuildFields]_vars

(***************************************************************************)
(* call_local_qa called directly                                           *)
(***************************************************************************)

QuestionFragments == { <<"W", "h", "a", "t", " ">>, <<"D", "I", "D", "\t">>, <<" ", "z", "z", " ">> }

ContextFragments == { <<" ", " ", "w", "h", "a", "t", " ", "U", "n", "i", " ", "2", "0", "1", "5", " ", "\n">>, <<"z", "z", "\n">>, <<"a", " ", "Z", "Z", " ", "b", "\r", "\n">>, <<"D", "i", "d", "\t", "\n">> }

QaCall(question, context, model) ==
    [NoQaCall EXCEPT !.pc = "called", !.question = question, !.context = context,
                     !.model = model]

\* the globals are as try_load_models leaves them after a load that
\* succeeded or failed
InitQa ==
    /\ TRANSFORMERS_AVAILABLE = TRUE
    /\ models_loaded \in BOOLEAN
    /\ ner_pipeline = (IF models_loaded THEN "pipeline" ELSE "None")
    /\ qa_pipeline = (IF models_loaded THEN "pipeline" ELSE "None")
    /\ phase = "serving"
    /\ load_attempts = 0
    /\ late_changes = 0
    /\ candidates_col = <<>>
    /\ uploads = 0
    /\ upload = NoUpload
    /\ ask = NoAsk
    /\ fields_call = NoFieldsCall
    /\ qa_call \in {QaCall(q, c, m) :
                      q \in Texts(QuestionFragments, MaxQuestionWords),
                      c \in Texts(ContextFragments, MaxContextLines),
                      m \in {QaModel(TRUE, <<"b", "o", "o", "m">>, List(<<>>)),
                             QaModel(FALSE, <<>>, AnswerDict(<<"M", "I", "T">>))}}

\* res = call_local_qa(question, context)
CallQa ==
    /\ qa_call.pc = "called"
    /\ qa_call' = [qa_call EXCEPT
                     !.pc = "returned",
                     !.result = call_local_qa(qa_call.question, qa_call.context,
                                              qa_call.model)]
    /\ UNCHANGED <<globals, loading, service, fields_call>>

SpecQa == InitQa /\ [][CallQa]_vars


(***************************************************************************)
(* Properties                                                              *)
(***************************************************************************)

\* whether the QA model is available to call_local_qa
Loaded == models_loaded /\ qa_pipeline # "None"

C2_CandidateIdNeverNull ==
    /\ upload.pc = "candidate" => ~upload.metadata_id.isnone
    /\ upload.status = 201 => ~upload.metadata_id.isnone
    /\ \A i \in 1..Len(candidates_col) : ~candidates_col[i].candidate_id.isnone

\* C3: the metadata insert and the candidate insert happen only after text
\* extraction and the blob upload both succeeded; a request whose extraction
\* or blob upload failed ends in a hard failure with neither insert
\* performed; 201 is returned only after the candidate insert succeeded.
C3_InsertsAfterExtractionAndBlob ==
    /\ (upload.metadata_inserts > 0 \/ upload.candidate_inserts > 0)
           => (upload.extracted /\ upload.blob_uploaded)
    /\ (upload.pc = "done" /\ ~(upload.extracted /\ upload.blob_uploaded))
           => /\ upload.status \in {400, 500}
              /\ upload.metadata_inserts = 0
              /\ upload.candidate_inserts = 0
    /\ upload.status = 201
           => /\ upload.candidate_inserts = 1
              /\ candidates_col # <<>>
              /\ candidates_col[Len(candidates_col)] = candidate_doc(upload)
    /\ Len(candidates_col) <= uploads

\* the text was extracted, the blob upload failed, and the request failed
\* without an insert
C3_Witness ==
    /\ upload.pc = "done"
    /\ upload.extracted
    /\ ~upload.blob_uploaded
    /\ upload.status = 500
    /\ upload.metadata_inserts = 0

\* the fields of a returned record have the types of the docstring
WellTyped(v) ==
    /\ DOMAIN v = {"name", "education", "experience", "skills", "hobbies",
                   "certifications", "projects", "introduction"}
    /\ v.name \in Seq(Range(CodePoints))
    /\ v.introduction \in Seq(Range(CodePoints))
    /\ DOMAIN v.education = {"has_entries", "entries"}
    /\ DOMAIN v.experience = {"has_summary_lines", "summary_lines"}
    /\ \A f \in {v.skills, v.hobbies, v.certifications, v.projects} :
           DOMAIN f = 1..Len(f)

\* C4 as stated: build_structured_fields returns, without raising, a record
\* with all eight fields, for every text and every entity sequence, entities
\* without a text or a category included.
C4_Total ==
    fields_call.pc = "returned" =>
        /\ ~fields_call.result.raised
        /\ WellTyped(fields_call.result.value)

\* C5 as stated: over the import-time and the startup call of
\* try_load_models the pipeline constructors are entered at most once, and
\* the second call leaves the three globals as the first left them.
C5_LoadedOnce ==
    /\ load_attempts <= 1
    /\ late_changes = 0

\* C6: a call of call_local_qa takes one of two paths.  With the model
\* loaded it is invoked exactly once, the heuristic does not run, and a
\* failed invocation yields the error outcome with its message; without a
\* model it is never invoked and the result is the heuristic's answer.
C6_OnePathPerCall ==
    ask.called =>
        IF Loaded
        THEN /\ ask.qa_calls = 1
             /\ ~ask.heuristic_ran
             /\ ~ask.caught.isnone => ask.hf_resp = ErrorDict(ask.caught.str)
        ELSE /\ ask.qa_calls = 0
             /\ ask.heuristic_ran
             /\ ask.caught.isnone
             /\ ask.hf_resp.has_answer

\* the model was loaded and its invocation failed
C6_Witness ==
    ask.called /\ Loaded /\ ~ask.caught.isnone /\ ask.qa_calls = 1

\* the first three whitespace-separated tokens of the lower-cased question
Keywords(question) == Prefix(Split(Lower(question)), 3)

\* a line of the context that answers: trimmed length at least 3, and its
\* lower-cased trimmed form contains a keyword
Answers(line, keywords) ==
    LET trimmed == Lower(Strip(line))
    IN  /\ Len(trimmed) >= 3
        /\ \E k \in 1..Len(keywords) : Contains(keywords[k], trimmed)

\* C7: without a model, call_local_qa returns the first answering line of
\* the context, trimmed, and the fixed literal when no line answers.
C7_FirstMatchingLine ==
    (qa_call.pc = "returned" /\ ~Loaded) =>
        LET lines == SplitLines(qa_call.context)
            keywords == Keywords(qa_call.question)
            hits == {i \in 1..Len(lines) : Answers(lines[i], keywords)}
        IN  /\ qa_call.result.ret.type = "dict"
            /\ qa_call.result.ret.has_answer
            /\ ~qa_call.result.ret.has_error
            /\ qa_call.result.ret.answer =
                   IF hits = {} THEN NO_CLEAR_ANSWER ELSE Strip(lines[Min(hits)])

\* a question of four words whose first line does not answer and a later
\* one does
C7_Witness ==
    /\ qa_call.pc = "returned"
    /\ ~Loaded
    /\ LET lines == SplitLines(qa_call.context)
       IN  /\ Len(Split(qa_call.question)) = 4
           /\ Len(lines) = 2
           /\ lines[1] # lines[2]
           /\ qa_call.result.ret.answer = Strip(lines[2])

\* lit occurs in s as a literal substring with no word character next to it
\* on either side
OccursAsWholeWord(lit, s) ==
    \E i \in 1..Len(s) :
        /\ StartsAt(lit, s, i)
        /\ (i = 1 \/ ~IsWordChar(s[i - 1]))
        /\ (i + Len(lit) > Len(s) \/ ~IsWordChar(s[i + Len(lit)]))

\* C8 as stated: skills is the sorted, duplicate-free list of exactly the
\* tokens of COMMON_SKILLS that occur in the lower-cased text as a whole
\* word.
C8_SkillsAreWholeWords ==
    fields_call.pc = "returned" =>
        fields_call.result.value.skills =
            SortedList({COMMON_SKILLS[i] : i \in {j \in 1..Len(COMMON_SKILLS) :
                OccursAsWholeWord(COMMON_SKILLS[j], Lower(fields_call.text))}})

\* the education the claim C9 describes
ClaimedEducation(text, ner_entities) ==
    LET lines == SplitLines(text)
        Qualifies(line) ==
            /\ \/ \E k \in 1..Len(DEGREE_KEYWORDS) : Contains(DEGREE_KEYWORDS[k], Lower(line))
               \/ \E k \in 1..Len(INSTITUTION_WORDS) :
                      OccursAsWholeWord(INSTITUTION_WORDS[k], Lower(line))
            /\ Len(Strip(line)) > 5
        IsOrg(e) ==
            /\ e.has_entity_group
            /\ ~e.entity_group.isnone
            /\ StartsWith(Upper(e.entity_group.str), <<"O", "R", "G">>)
        qualifying == SelectSeq(lines, Qualifies)
        organizations == SelectSeq(ner_entities, IsOrg)
    IN  IF qualifying # <<>>
        THEN [has_entries |-> TRUE,
              entries |-> [i \in 1..Len(qualifying) |-> Str(Strip(qualifying[i]))]]
        ELSE IF organizations # <<>>
        THEN [has_entries |-> TRUE,
              entries |-> [i \in 1..(IF Len(organizations) < 3 THEN Len(organizations) ELSE 3)
                             |-> GetWord(organizations[i])]]
        ELSE [has_entries |-> FALSE, entries |-> <<>>]

\* C9 as stated: for every text and entity sequence build_structured_fields
\* returns the education the claim describes.
C9_Education ==
    fields_call.pc = "returned" =>
        /\ ~fields_call.result.raised
        /\ fields_call.result.value.education =
               ClaimedEducation(fields_call.text, fields_call.ner_entities)

\* whenever build_structured_fields returns, education is as C9 describes
EducationWhenReturned ==
    (fields_call.pc = "returned" /\ ~fields_call.result.raised) =>
        fields_call.result.value.education =
            ClaimedEducation(fields_call.text, fields_call.ner_entities)

\* C10 as stated: when the loaded model returns an answer object, or a
\* non-empty sequence of them, the answer of ask_candidate is the answer text
\* of that object, or of the first of the sequence, the empty text included.
C10_AnswerIsModelAnswerText ==
    (ask.called /\ Loaded /\ ask.caught.isnone) =>
        /\ (ask.hf_resp.type = "dict" /\ ask.hf_resp.has_answer)
               => (ask.status = 200 /\ ask.answer = ask.hf_resp.answer)
        /\ (ask.hf_resp.type = "list" /\ ask.hf_resp.items # <<>>
                /\ ask.hf_resp.items[1].has_answer)
               => (ask.status = 200 /\ ask.answer = ask.hf_resp.items[1].answer)

====
